---- MODULE Spec2Model ----
(***************************************************************************)
(* State-machine model of the AccountRelatedRecords Lightning web          *)
(* component controller (accountRelatedRecords.js): two collections        *)
(* (contacts, opportunities), each with a paginated cursor, a debounced    *)
(* server-side search, inline-edit save, row delete, client-side sort and  *)
(* refresh.  Every async handler is a task whose awaits are gateway        *)
(* requests: a request is sent, served by the server at some later point   *)
(* (success or rejection), and the handler's continuation runs once the    *)
(* awaited promise settles.                                                *)
(***************************************************************************)
EXTENDS Integers, Sequences, FiniteSets, TLC

\* ------------------------------------------------------------------ bounds
\* Page size of the OFFSET pagination (50 in the source, scaled down).
PAGE_SIZE == 2
\* Largest number of rows a collection holds on the server.
MaxRows == 3
\* Number of task slots: handlers that may be suspended at an await at once.
MaxTasks == 2
\* Budgets: user events delivered to the component, gateway rejections.
MaxEvents == 3
MaxFail == 1
\* Both tabs in use: user events delivered to the component.
MaxBothEvents == 3
\* Sorting alone: rows of the sorted collection, sort events.
MaxSortRows == 3
MaxSorts == 2

\* ------------------------------------------------------------------ data
Coll == {"contact", "opportunity"}
TaskIds == 1..MaxTasks

Min(a, b) == IF a < b THEN a ELSE b

\* Strings are sequences of one-character strings, so that trim, lower-casing
\* and substring matching are computed rather than assumed.
Lower(ch) == CASE ch = "A" -> "a" [] ch = "B" -> "b" [] OTHER -> ch

ToLowerCase(s) == [i \in 1..Len(s) |-> Lower(s[i])]

RECURSIVE TrimStart(_)
TrimStart(s) == IF s # <<>> /\ Head(s) = " " THEN TrimStart(Tail(s)) ELSE s

RECURSIVE TrimEnd(_)
TrimEnd(s) ==
    IF s # <<>> /\ s[Len(s)] = " " THEN TrimEnd(SubSeq(s, 1, Len(s) - 1)) ELSE s

\* String.prototype.trim
Trim(s) == TrimEnd(TrimStart(s))

\* Values a keystroke can leave in a search box.
SearchInputs == { <<>>, <<" ">>, <<"a">>, <<"a", "b">>, <<"a", " ">> }

\* Record identifiers are unique across the two collections.
IdBase(c) == IF c = "contact" THEN 0 ELSE 10

InitialName(k) ==
    CASE k = 1 -> <<"a", "b">>
      [] k = 2 -> <<"B">>
      [] k = 3 -> <<"a">>
      [] k = 4 -> <<"b", "a">>
      [] OTHER -> <<"A", "b">>

\* The rows of collection c on the server when it holds n rows.
InitialServer(c, n) == [k \in 1..n |-> [Id |-> IdBase(c) + k, Name |-> InitialName(k)]]

\* Names an inline edit can give a row.
EditNames == { <<"b">> }

NoRow == [Id |-> 0, Name |-> <<>>, recordUrl |-> <<>>]

Ids(rows) == {rows[k].Id : k \in 1..Len(rows)}

\* ------------------------------------------------------------------ state
VARIABLES
    server,                 \* [Coll -> Seq(row)]: the gateway's data store
    connected,              \* "new" | "connected" | "disconnected"
    paginated,              \* _paginatedContacts / _paginatedOpportunities
    searchRows,             \* _searchContacts / _searchOpportunities
    totalCount,             \* totalContactCount / totalOpportunityCount
    offset,                 \* _contactOffset / _opportunityOffset
    hasMore,                \* enableContactInfiniteLoading / ...Opportunity...
    draftValues,            \* the datatable's draft-values
    isLoading,
    isSaving,
    error,                  \* contactError / opportunityError (set or not)
    searchTerm,             \* contactSearchTerm / opportunitySearchTerm
    isSearching,            \* _isContactSearching / _isOpportunitySearching
    debounceTimer,          \* armed timers: the terms of their closures, in order
    loading,                \* _contactsLoading / _opportunitiesLoading
    tasks,                  \* [TaskIds -> task]: handlers suspended at an await
    toasts,                 \* titles of the ShowToastEvents dispatched, in order
    searchLog,              \* history: the search requests sent, per collection
    rowsTerm,               \* history: the term searchRows was fetched for
    used                    \* budgets consumed

pvars == <<paginated, searchRows, totalCount, offset, hasMore, draftValues,
           isLoading, isSaving, error, searchTerm, isSearching, debounceTimer,
           loading>>

vars == <<server, connected, paginated, searchRows, totalCount, offset, hasMore,
          draftValues, isLoading, isSaving, error, searchTerm, isSearching,
          debounceTimer, loading, tasks, toasts, searchLog, rowsTerm, used>>

\* ------------------------------------------------------------------ gateway
\* SOQL LIMIT pageSize OFFSET offsetVal over the server's default order.
FetchPage(c, pageSize, offsetVal) ==
    SubSeq(server[c], offsetVal + 1, Min(Len(server[c]), offsetVal + pageSize))

FetchCount(c) == Len(server[c])

Contains(s, t) ==
    \E k \in 0..(Len(s) - Len(t)) : SubSeq(s, k + 1, k + Len(t)) = t

\* LIKE '%term%' (case-insensitive), all matches, unpaginated.
SearchRecords(c, term) ==
    SelectSeq(server[c], LAMBDA r : Contains(ToLowerCase(r.Name), ToLowerCase(term)))

RemoveId(rows, id) == SelectSeq(rows, LAMBDA r : r.Id # id)

RenameId(rows, id, name) ==
    [k \in 1..Len(rows) |-> IF rows[k].Id = id THEN [rows[k] EXCEPT !.Name = name]
                                               ELSE rows[k]]

\* A gateway request: op is "page", "count", "search", "delete", "update" or
\* "notify"; st is "sent" until the server has answered, then "ok" or "err".
Request(op, c, a, b, t) ==
    [op |-> op, c |-> c, a |-> a, b |-> b, t |-> t,
     st |-> "sent", rows |-> <<>>, count |-> 0]

\* ------------------------------------------------------------------ tasks
IdleTask ==
    [kind |-> "none", c |-> "contact", pc |-> "", term |-> <<>>, row |-> NoRow,
     drafts |-> <<>>, n |-> 0, count0 |-> 0, log |-> 0, reqs |-> <<>>]

NewTask(kind, c, pc, reqs) ==
    [IdleTask EXCEPT !.kind = kind, !.c = c, !.pc = pc, !.reqs = reqs]

HasFreeSlot == \E i \in TaskIds : tasks[i].kind = "none"

FreeSlot == CHOOSE i \in TaskIds :
                /\ tasks[i].kind = "none"
                /\ \A j \in TaskIds : j < i => tasks[j].kind # "none"

\* Promise.all: rejected as soon as one request is rejected, fulfilled once
\* every request is fulfilled.
Rejected(t) == \E k \in 1..Len(t.reqs) : t.reqs[k].st = "err"

Fulfilled(t) == \A k \in 1..Len(t.reqs) : t.reqs[k].st = "ok"

\* Variant: the handler resumes on the first answer (Promise.race).
SettledOnFirstAnswer(t) == \E k \in 1..Len(t.reqs) : t.reqs[k].st # "sent"

Settled(t) == Rejected(t) \/ Fulfilled(t)

Idle == \A i \in TaskIds : tasks[i].kind = "none"

\* ------------------------------------------------------------------ helpers
_addRecordUrls(records) ==
    [k \in 1..Len(records) |->
        IF "Amount" \in DOMAIN records[k]
        THEN [Id |-> records[k].Id, Name |-> records[k].Name,
              Amount |-> records[k].Amount, recordUrl |-> <<"/", records[k].Id>>]
        ELSE [Id |-> records[k].Id, Name |-> records[k].Name,
              recordUrl |-> <<"/", records[k].Id>>]]

_isSearchActive(c) == Len(Trim(searchTerm[c])) > 0

displayed(c) == IF _isSearchActive(c) THEN searchRows[c] ELSE paginated[c]

infiniteLoadingEnabled(c) == IF _isSearchActive(c) THEN FALSE ELSE hasMore[c]

\* The state after construction (the class field initialisers), over a server
\* whose collections hold sizes[c] rows.
ConstructedOver(servers) ==
    /\ server \in servers
    /\ connected = "new"
    /\ paginated = [c \in Coll |-> <<>>]
    /\ searchRows = [c \in Coll |-> <<>>]
    /\ totalCount = [c \in Coll |-> 0]
    /\ offset = [c \in Coll |-> 0]
    /\ hasMore = [c \in Coll |-> TRUE]
    /\ draftValues = [c \in Coll |-> <<>>]
    /\ isLoading = TRUE
    /\ isSaving = FALSE
    /\ error = [c \in Coll |-> FALSE]
    /\ searchTerm = [c \in Coll |-> <<>>]
    /\ isSearching = [c \in Coll |-> FALSE]
    /\ debounceTimer = [c \in Coll |-> <<>>]
    /\ loading = [c \in Coll |-> FALSE]
    /\ tasks = [i \in TaskIds |-> IdleTask]
    /\ toasts = <<>>
    /\ searchLog = [c \in Coll |-> <<>>]
    /\ rowsTerm = [c \in Coll |-> <<>>]
    /\ used = [keys |-> 0, more |-> [c \in Coll |-> 0], del |-> 0, save |-> 0,
               edit |-> 0, sort |-> 0, refresh |-> 0, fail |-> 0, threw |-> 0]

Constructed(sizes) ==
    ConstructedOver({[c \in Coll |-> InitialServer(c, n[c])] : n \in sizes})

\* ------------------------------------------------------------------ server
\* The server answers one outstanding request of task i.
Answer(r) ==
    CASE r.op = "page"   -> [r EXCEPT !.st = "ok", !.rows = FetchPage(r.c, r.a, r.b)]
      [] r.op = "count"  -> [r EXCEPT !.st = "ok", !.count = FetchCount(r.c)]
      [] r.op = "search" -> [r EXCEPT !.st = "ok", !.rows = SearchRecords(r.c, r.t)]
      [] r.op = "delete" -> [r EXCEPT !.st = IF r.a \in Ids(server[r.c]) THEN "ok" ELSE "err"]
      [] r.op = "update" -> [r EXCEPT !.st = IF r.a \in Ids(server[r.c]) THEN "ok" ELSE "err"]
      [] OTHER           -> [r EXCEPT !.st = "ok"]

ServerAfter(r) ==
    CASE r.op = "delete" -> [server EXCEPT ![r.c] = RemoveId(@, r.a)]
      [] r.op = "update" -> [server EXCEPT ![r.c] = RenameId(@, r.a, r.t)]
      [] OTHER           -> server

\* A task whose handler has already returned but whose writes are still on
\* their way to the server frees its slot once the last of them is answered.
Answered(t, k, r) ==
    LET u == [t EXCEPT !.reqs[k] = r]
    IN IF u.kind = "orphan" /\ \A j \in 1..Len(u.reqs) : u.reqs[j].st # "sent"
       THEN IdleTask ELSE u

ServeOk(i, k) ==
    /\ tasks[i].kind # "none"
    /\ k \in 1..Len(tasks[i].reqs)
    /\ tasks[i].reqs[k].st = "sent"
    /\ tasks' = [tasks EXCEPT ![i] = Answered(@, k, Answer(tasks[i].reqs[k]))]
    /\ server' = ServerAfter(tasks[i].reqs[k])
    /\ UNCHANGED <<connected, pvars, toasts, searchLog, rowsTerm, used>>

ServeErr(i, k) ==
    /\ tasks[i].kind # "none"
    /\ k \in 1..Len(tasks[i].reqs)
    /\ tasks[i].reqs[k].st = "sent"
    /\ tasks' = [tasks EXCEPT ![i] = Answered(@, k, [tasks[i].reqs[k] EXCEPT !.st = "err"])]
    /\ used' = [used EXCEPT !.fail = @ + 1]
    /\ UNCHANGED <<server, connected, pvars, toasts, searchLog, rowsTerm>>

\* ------------------------------------------------------------------ initial load
LoadInitialDataReqs ==
    << Request("page", "contact", PAGE_SIZE, 0, <<>>),
       Request("page", "opportunity", PAGE_SIZE, 0, <<>>),
       Request("count", "contact", 0, 0, <<>>),
       Request("count", "opportunity", 0, 0, <<>>) >>

PageOf(t, c) == IF c = "contact" THEN t.reqs[1].rows ELSE t.reqs[2].rows

CountOf(t, c) == IF c = "contact" THEN t.reqs[3].count ELSE t.reqs[4].count

InitialHasMore(len) == len >= PAGE_SIZE

\* The body of _loadInitialData after its await, for the settled task t.
LoadInitialDataApply(t) ==
    /\ IF Fulfilled(t)
       THEN /\ paginated' = [c \in Coll |-> _addRecordUrls(PageOf(t, c))]
            /\ totalCount' = [c \in Coll |-> CountOf(t, c)]
            /\ offset' = [c \in Coll |-> Len(PageOf(t, c))]
            /\ hasMore' = [c \in Coll |-> InitialHasMore(Len(PageOf(t, c)))]
            /\ error' = [c \in Coll |-> FALSE]
       ELSE /\ error' = [c \in Coll |-> TRUE]
            /\ UNCHANGED <<paginated, totalCount, offset, hasMore>>
    /\ isLoading' = FALSE

connectedCallback ==
    /\ connected = "new"
    /\ connected' = "connected"
    /\ isLoading' = TRUE
    /\ tasks' = [tasks EXCEPT ![FreeSlot] = NewTask("init", "contact", "load", LoadInitialDataReqs)]
    /\ UNCHANGED <<server, paginated, searchRows, totalCount, offset, hasMore, draftValues,
                   isSaving, error, searchTerm, isSearching, debounceTimer, loading,
                   toasts, searchLog, rowsTerm, used>>

LoadInitialDataDone(i) ==
    /\ tasks[i].kind = "init"
    /\ Settled(tasks[i])
    /\ LoadInitialDataApply(tasks[i])
    /\ tasks' = [tasks EXCEPT ![i] = IdleTask]
    /\ UNCHANGED <<server, connected, searchRows, draftValues, isSaving, searchTerm,
                   isSearching, debounceTimer, loading, toasts, searchLog, rowsTerm, used>>

\* Variant: the keystroke leaves the pending timer armed.
KeptTimers(c) == debounceTimer[c]

\* clearTimeout(this._contactDebounceTimer): the timers of c still armed.
ClearTimeout(c) == <<>>

\* Variant: the teardown cancels the timer of the contacts only.
TornDownContactOnly ==
    [c \in Coll |-> IF c = "contact" THEN ClearTimeout(c) ELSE debounceTimer[c]]

\* The timers left armed by disconnectedCallback.
TornDownTimers == [c \in Coll |-> ClearTimeout(c)]

disconnectedCallback ==
    /\ connected = "connected"
    /\ connected' = "disconnected"
    /\ debounceTimer' = TornDownTimers
    /\ UNCHANGED <<server, paginated, searchRows, totalCount, offset, hasMore, draftValues,
                   isLoading, isSaving, error, searchTerm, isSearching, loading, tasks,
                   toasts, searchLog, rowsTerm, used>>

\* ------------------------------------------------------------------ load more
\* Variant: the guard looks at the search mode only.
LoadMoreBlockedBySearchOnly(c) == _isSearchActive(c)

\* The guard of handleContactLoadMore / handleOpportunityLoadMore.
LoadMoreBlocked(c) == _isSearchActive(c) \/ loading[c]

\* Variant: the cursor advances by the page size requested.
LoadMoreOffsetByPage(c, len) == offset[c] + PAGE_SIZE

LoadMoreOffset(c, len) == offset[c] + len

LoadMoreHasMore(c, len) == IF len < PAGE_SIZE THEN FALSE ELSE hasMore[c]

\* Variant: a failed fetch leaves the flag, so the table asks again.
LoadMoreFailedKeepsHasMore(c) == hasMore[c]

\* enableContactInfiniteLoading after a rejected load-more fetch.
LoadMoreFailedHasMore(c) == FALSE

handleLoadMore(c) ==
    /\ connected = "connected"
    /\ hasMore[c]
    /\ used' = [used EXCEPT !.more[c] = @ + 1]
    /\ IF LoadMoreBlocked(c)
       THEN UNCHANGED <<loading, tasks>>
       ELSE /\ HasFreeSlot
            /\ loading' = [loading EXCEPT ![c] = TRUE]
            /\ tasks' = [tasks EXCEPT ![FreeSlot] =
                            NewTask("loadMore", c, "load",
                                    << Request("page", c, PAGE_SIZE, offset[c], <<>>) >>)]
    /\ UNCHANGED <<server, connected, paginated, searchRows, totalCount, offset, hasMore,
                   draftValues, isLoading, isSaving, error, searchTerm, isSearching,
                   debounceTimer, toasts, searchLog, rowsTerm>>

LoadMoreDone(i) ==
    LET t == tasks[i]
        c == t.c
        r == t.reqs[1]
    IN /\ t.kind = "loadMore"
       /\ Settled(t)
       /\ IF r.st = "ok"
          THEN /\ paginated' = [paginated EXCEPT ![c] = @ \o _addRecordUrls(r.rows)]
               /\ offset' = [offset EXCEPT ![c] = LoadMoreOffset(c, Len(r.rows))]
               /\ hasMore' = [hasMore EXCEPT ![c] = LoadMoreHasMore(c, Len(r.rows))]
          ELSE /\ hasMore' = [hasMore EXCEPT ![c] = LoadMoreFailedHasMore(c)]
               /\ UNCHANGED <<paginated, offset>>
       /\ loading' = [loading EXCEPT ![c] = FALSE]
       /\ tasks' = [tasks EXCEPT ![i] = IdleTask]
       /\ UNCHANGED <<server, connected, searchRows, totalCount, draftValues, isLoading,
                      isSaving, error, searchTerm, isSearching, debounceTimer, toasts,
                      searchLog, rowsTerm, used>>

\* ------------------------------------------------------------------ search
LogEntry(term) == [term |-> term, st |-> "sent", rows |-> <<>>, done |-> 0]

LogSent(c, term) == [searchLog EXCEPT ![c] = Append(@, LogEntry(term))]

LogDone(c, k, r) ==
    [searchLog EXCEPT ![c][k] =
        [@ EXCEPT !.st = r.st, !.rows = r.rows,
                  !.done = 1 + Cardinality({j \in 1..Len(searchLog[c]) :
                                               searchLog[c][j].done > 0})]]

\* Variant: a cleared search box leaves the search rows as they are.
KeptSearchRows(c) == searchRows[c]

\* The search rows once the search box is cleared.
ClearedSearchRows(c) == <<>>

\* Variant: clearing the search box drops the loaded pages.
ClearedPaginatedReset(c) == <<>>

\* "Cleared search - show paginated data again": the rows loaded before.
ClearedPaginated(c) == paginated[c]

handleSearch(c, value) ==
    /\ connected = "connected"
    /\ value # searchTerm[c]
    /\ used' = [used EXCEPT !.keys = @ + 1]
    /\ searchTerm' = [searchTerm EXCEPT ![c] = value]
    /\ IF Trim(value) = <<>>
       THEN /\ debounceTimer' = [debounceTimer EXCEPT ![c] = ClearTimeout(c)]
            /\ searchRows' = [searchRows EXCEPT ![c] = ClearedSearchRows(c)]
            /\ rowsTerm' = [rowsTerm EXCEPT ![c] = <<>>]
            /\ isSearching' = [isSearching EXCEPT ![c] = FALSE]
            /\ paginated' = [paginated EXCEPT ![c] = ClearedPaginated(c)]
       ELSE /\ debounceTimer' = [debounceTimer EXCEPT ![c] = Append(ClearTimeout(c), Trim(value))]
            /\ UNCHANGED <<searchRows, rowsTerm, isSearching, paginated>>
    /\ UNCHANGED <<server, connected, totalCount, offset, hasMore, draftValues,
                   isLoading, isSaving, error, loading, tasks, toasts, searchLog>>

\* The search request of _executeContactSearch / _executeOpportunitySearch.
SearchReqs(c, term) == << Request("search", c, 0, 0, term) >>

\* The debounce timer fires and calls _executeSearch with its term.
DebounceFire(c) ==
    LET term == debounceTimer[c][1]
    IN /\ debounceTimer[c] # <<>>
       /\ HasFreeSlot
       /\ debounceTimer' = [debounceTimer EXCEPT ![c] = Tail(@)]
       /\ isSearching' = [isSearching EXCEPT ![c] = TRUE]
       /\ tasks' = [tasks EXCEPT ![FreeSlot] =
                       [NewTask("search", c, "search", SearchReqs(c, term))
                           EXCEPT !.term = term, !.log = Len(searchLog[c]) + 1]]
       /\ searchLog' = LogSent(c, term)
       /\ UNCHANGED <<server, connected, paginated, searchRows, totalCount, offset, hasMore,
                      draftValues, isLoading, isSaving, error, searchTerm, loading, toasts,
                      rowsTerm, used>>

\* Variant: a fulfilled search is applied whatever the term has become.
SearchAlwaysCurrent(c, term) == TRUE

\* Whether a fulfilled search for term is applied.
SearchStillCurrent(c, term) == Trim(searchTerm[c]) = term

\* Variant: the last response to arrive wins.
ExecuteSearchRowsLastArrival(c, term, r) ==
    IF r.st = "ok" THEN _addRecordUrls(r.rows) ELSE <<>>

\* Variant: a failed search leaves the rows of the earlier search.
ExecuteSearchRowsKeptOnFailure(c, term, r) ==
    IF r.st = "ok" /\ SearchStillCurrent(c, term) THEN _addRecordUrls(r.rows)
    ELSE searchRows[c]

\* _searchContacts after the await of _executeSearch(term) settled with r.
ExecuteSearchRows(c, term, r) ==
    IF r.st = "ok"
    THEN IF SearchStillCurrent(c, term) THEN _addRecordUrls(r.rows) ELSE searchRows[c]
    ELSE <<>>

ExecuteSearchRowsTerm(c, term, r) ==
    IF r.st = "ok"
    THEN IF SearchStillCurrent(c, term) THEN <<term>> ELSE rowsTerm[c]
    ELSE <<>>

\* try / catch / finally of _executeSearch for the settled task t.
ExecuteSearchApply(t) ==
    /\ searchRows' = [searchRows EXCEPT ![t.c] = ExecuteSearchRows(t.c, t.term, t.reqs[1])]
    /\ rowsTerm' = [rowsTerm EXCEPT ![t.c] = ExecuteSearchRowsTerm(t.c, t.term, t.reqs[1])]

ExecuteSearchDone(i) ==
    LET t == tasks[i]
    IN /\ t.kind = "search"
       /\ Settled(t)
       /\ ExecuteSearchApply(t)
       /\ isSearching' = [isSearching EXCEPT ![t.c] = FALSE]
       /\ searchLog' = LogDone(t.c, t.log, t.reqs[1])
       /\ tasks' = [tasks EXCEPT ![i] = IdleTask]
       /\ UNCHANGED <<server, connected, paginated, totalCount, offset, hasMore, draftValues,
                      isLoading, isSaving, error, searchTerm, debounceTimer, loading, toasts,
                      used>>

\* ------------------------------------------------------------------ re-synchronisation
ReloadReqs(c, currentCount) ==
    << Request("page", c, currentCount, 0, <<>>), Request("count", c, 0, 0, <<>>) >>

\* Variant: the reload asks for one page.
ReloadingOnePage(t) ==
    [t EXCEPT !.pc = "reload", !.n = PAGE_SIZE, !.reqs = ReloadReqs(t.c, PAGE_SIZE)]

\* _reloadData up to its await.
Reloading(t) ==
    [t EXCEPT !.pc = "reload", !.n = offset[t.c], !.reqs = ReloadReqs(t.c, offset[t.c])]

\* _executeSearch(this.searchTerm.trim()) up to its await.
Searching(t) ==
    [t EXCEPT !.pc = "search", !.term = Trim(searchTerm[t.c]),
              !.log = Len(searchLog[t.c]) + 1,
              !.reqs = SearchReqs(t.c, Trim(searchTerm[t.c]))]

\* "Re-run search if active, and reload paginated data + count."
Resynchronise(i, t) ==
    IF _isSearchActive(t.c)
    THEN /\ tasks' = [tasks EXCEPT ![i] = Searching(t)]
         /\ isSearching' = [isSearching EXCEPT ![t.c] = TRUE]
         /\ searchLog' = LogSent(t.c, Trim(searchTerm[t.c]))
    ELSE /\ tasks' = [tasks EXCEPT ![i] = Reloading(t)]
         /\ UNCHANGED <<isSearching, searchLog>>

\* Variant: the flag is derived from the page size, as in the initial load.
ReloadHasMoreByPage(len, currentCount) == len >= PAGE_SIZE

ReloadHasMore(len, currentCount) == len >= currentCount

\* Variant: the cursor keeps the size of the window that was requested.
ReloadOffsetRequested(len, currentCount) == currentCount

ReloadOffset(len, currentCount) == len

\* Variant: the reload is stored as contacts whatever the object type.
ReloadObjectTypeContact(t) == "contact"

\* if (objectType === "contact") ... else ...: the collection a reload is stored in.
ReloadObjectType(t) == t.c

\* _reloadData after its await.
ReloadApply(t) ==
    LET rows == t.reqs[1].rows
        c == ReloadObjectType(t)
    IN /\ paginated' = [paginated EXCEPT ![c] = _addRecordUrls(rows)]
       /\ totalCount' = [totalCount EXCEPT ![c] = t.reqs[2].count]
       /\ offset' = [offset EXCEPT ![c] = ReloadOffset(Len(rows), t.n)]
       /\ hasMore' = [hasMore EXCEPT ![c] = ReloadHasMore(Len(rows), t.n)]

ErrorTitle(t) ==
    IF t.kind = "delete" THEN "Error Deleting Record"
    ELSE IF t.c = "contact" THEN "Error Updating Contacts"
    ELSE "Error Updating Opportunities"

\* Variant: the handler reloads the paginated window on its way out.
ReturnedReloading(t) == Reloading(t)

\* The handler returns; updates it sent and did not wait for still reach the
\* server.
Returned(t) ==
    IF \E k \in 1..Len(t.reqs) : t.reqs[k].op = "update" /\ t.reqs[k].st = "sent"
    THEN [t EXCEPT !.kind = "orphan"]
    ELSE IdleTask

\* catch and finally of _deleteRow / handleContactSave / handleOpportunitySave.
MutationFailed(i, t) ==
    /\ toasts' = Append(toasts, ErrorTitle(t))
    /\ isSaving' = FALSE
    /\ tasks' = [tasks EXCEPT ![i] = Returned(t)]

\* The save or delete handler resumes after its awaited _executeSearch.
AfterSearch(i) ==
    LET t == tasks[i]
    IN /\ t.kind \in {"delete", "save"}
       /\ t.pc = "search"
       /\ Settled(t)
       /\ ExecuteSearchApply(t)
       /\ isSearching' = [isSearching EXCEPT ![t.c] = FALSE]
       /\ searchLog' = LogDone(t.c, t.log, t.reqs[1])
       /\ tasks' = [tasks EXCEPT ![i] = Reloading(t)]
       /\ UNCHANGED <<server, connected, paginated, totalCount, offset, hasMore, draftValues,
                      isLoading, isSaving, error, searchTerm, debounceTimer, loading, toasts,
                      used>>

\* The save or delete handler resumes after its awaited _reloadData.
AfterReload(i) ==
    LET t == tasks[i]
    IN /\ t.kind \in {"delete", "save"}
       /\ t.pc = "reload"
       /\ Settled(t)
       /\ IF Fulfilled(t)
          THEN /\ ReloadApply(t)
               /\ isSaving' = FALSE
               /\ tasks' = [tasks EXCEPT ![i] = IdleTask]
               /\ UNCHANGED toasts
          ELSE /\ MutationFailed(i, t)
               /\ UNCHANGED <<paginated, totalCount, offset, hasMore>>
       /\ UNCHANGED <<server, connected, searchRows, draftValues, isLoading, error,
                      searchTerm, isSearching, debounceTimer, loading, searchLog, rowsTerm,
                      used>>

\* ------------------------------------------------------------------ delete
\* Row action "delete" on the k-th displayed row: _deleteRow up to its await.
handleRowActionDelete(c, k) ==
    /\ connected = "connected"
    /\ k \in 1..Len(displayed(c))
    /\ HasFreeSlot
    /\ used' = [used EXCEPT !.del = @ + 1]
    /\ isSaving' = TRUE
    /\ tasks' = [tasks EXCEPT ![FreeSlot] =
                    [NewTask("delete", c, "delete",
                             << Request("delete", c, displayed(c)[k].Id, 0, <<>>) >>)
                        EXCEPT !.row = displayed(c)[k], !.count0 = totalCount[c]]]
    /\ UNCHANGED <<server, connected, paginated, searchRows, totalCount, offset, hasMore,
                   draftValues, isLoading, error, searchTerm, isSearching, debounceTimer,
                   loading, toasts, searchLog, rowsTerm>>

\* _deleteRow resumes after deleteRecord.
DeleteRowAfterDelete(i) ==
    LET t == tasks[i]
    IN /\ t.kind = "delete"
       /\ t.pc = "delete"
       /\ Settled(t)
       /\ IF Fulfilled(t)
          THEN /\ toasts' = Append(toasts, "Deleted")
               /\ Resynchronise(i, t)
               /\ UNCHANGED isSaving
          ELSE /\ MutationFailed(i, t)
               /\ UNCHANGED <<isSearching, searchLog>>
       /\ UNCHANGED <<server, connected, paginated, searchRows, totalCount, offset, hasMore,
                      draftValues, isLoading, error, searchTerm, debounceTimer, loading,
                      rowsTerm, used>>

\* ------------------------------------------------------------------ inline edit and save
\* The datatable records an inline edit of the k-th displayed row.
EditCell(c, k, name) ==
    LET id == displayed(c)[k].Id
        d == [Id |-> id, Name |-> name]
        old == draftValues[c]
    IN /\ connected = "connected"
       /\ k \in 1..Len(displayed(c))
       /\ name # displayed(c)[k].Name
       /\ used' = [used EXCEPT !.edit = @ + 1]
       /\ draftValues' = [draftValues EXCEPT ![c] =
              IF \E j \in 1..Len(old) : old[j].Id = id
              THEN [j \in 1..Len(old) |-> IF old[j].Id = id THEN d ELSE old[j]]
              ELSE Append(old, d)]
       /\ UNCHANGED <<server, connected, paginated, searchRows, totalCount, offset, hasMore,
                      isLoading, isSaving, error, searchTerm, isSearching, debounceTimer,
                      loading, tasks, toasts, searchLog, rowsTerm>>

handleCancel(c) ==
    /\ connected = "connected"
    /\ draftValues[c] # <<>>
    /\ draftValues' = [draftValues EXCEPT ![c] = <<>>]
    /\ UNCHANGED <<server, connected, paginated, searchRows, totalCount, offset, hasMore,
                   isLoading, isSaving, error, searchTerm, isSearching, debounceTimer,
                   loading, tasks, toasts, searchLog, rowsTerm, used>>

UpdateReqs(c, drafts) ==
    [k \in 1..Len(drafts) |-> Request("update", c, drafts[k].Id, 0, drafts[k].Name)]

\* handleContactSave / handleOpportunitySave up to await Promise.all(updatePromises).
handleSave(c) ==
    /\ connected = "connected"
    /\ draftValues[c] # <<>>
    /\ HasFreeSlot
    /\ used' = [used EXCEPT !.save = @ + 1]
    /\ isSaving' = TRUE
    /\ tasks' = [tasks EXCEPT ![FreeSlot] =
                    [NewTask("save", c, "update", UpdateReqs(c, draftValues[c]))
                        EXCEPT !.drafts = draftValues[c], !.count0 = totalCount[c]]]
    /\ UNCHANGED <<server, connected, paginated, searchRows, totalCount, offset, hasMore,
                   draftValues, isLoading, error, searchTerm, isSearching, debounceTimer,
                   loading, toasts, searchLog, rowsTerm>>

\* The save handler resumes after Promise.all(updatePromises).
SaveAfterUpdate(i) ==
    LET t == tasks[i]
    IN /\ t.kind = "save"
       /\ t.pc = "update"
       /\ Settled(t)
       /\ IF Fulfilled(t)
          THEN /\ tasks' = [tasks EXCEPT ![i] =
                               [t EXCEPT !.pc = "notify",
                                         !.reqs = << Request("notify", t.c, 0, 0, <<>>) >>]]
               /\ UNCHANGED <<toasts, isSaving>>
          ELSE MutationFailed(i, t)
       /\ UNCHANGED <<server, connected, paginated, searchRows, totalCount, offset, hasMore,
                      draftValues, isLoading, error, searchTerm, isSearching, debounceTimer,
                      loading, searchLog, rowsTerm, used>>

\* The drafts after a save whose updates and notification succeeded.
SavedDrafts(c) == <<>>

\* The save handler resumes after notifyRecordUpdateAvailable.
SaveAfterNotify(i) ==
    LET t == tasks[i]
    IN /\ t.kind = "save"
       /\ t.pc = "notify"
       /\ Settled(t)
       /\ IF Fulfilled(t)
          THEN /\ toasts' = Append(toasts, "Success")
               /\ draftValues' = [draftValues EXCEPT ![t.c] = SavedDrafts(t.c)]
               /\ Resynchronise(i, t)
               /\ UNCHANGED isSaving
          ELSE /\ MutationFailed(i, t)
               /\ UNCHANGED <<draftValues, isSearching, searchLog>>
       /\ UNCHANGED <<server, connected, paginated, searchRows, totalCount, offset, hasMore,
                      isLoading, error, searchTerm, debounceTimer, loading, rowsTerm, used>>

\* ------------------------------------------------------------------ sort
CodeUnit(ch) ==
    CASE ch = " " -> 32 [] ch = "A" -> 65 [] ch = "B" -> 66
      [] ch = "a" -> 97 [] ch = "b" -> 98 [] OTHER -> 0

\* JavaScript's < on strings: lexicographic on code units.
RECURSIVE StrLess(_, _)
StrLess(x, y) ==
    IF y = <<>> THEN FALSE
    ELSE IF x = <<>> THEN TRUE
    ELSE IF CodeUnit(Head(x)) # CodeUnit(Head(y)) THEN CodeUnit(Head(x)) < CodeUnit(Head(y))
    ELSE StrLess(Tail(x), Tail(y))

SortFields == {"recordUrl"}

SortDirections == {"asc", "desc"}

\* A JavaScript value read from a row: a string, a number, or undefined when
\* the row has no such field.  Amount is the numeric column of the
\* opportunities; every other column holds text.
Undefined == [t |-> "undefined"]

Str(s) == [t |-> "string", s |-> s]

Num(n) == [t |-> "number", n |-> n]

Field(a, fieldName) ==
    IF fieldName \notin DOMAIN a THEN Undefined
    ELSE IF fieldName \in {"Amount", "Id"} THEN Num(a[fieldName])
    ELSE Str(a[fieldName])

\* a[fieldName] || "": undefined, "" and 0 are falsy.
OrEmpty(v) ==
    IF \/ v.t = "undefined"
       \/ v.t = "string" /\ v.s = <<>>
       \/ v.t = "number" /\ v.n = 0
    THEN Str(<<>>) ELSE v

\* valueB.toLowerCase() on a number: "toLowerCase is not a function".
CompareThrows(a, b, fieldName) ==
    /\ OrEmpty(Field(a, fieldName)).t = "string"
    /\ OrEmpty(Field(b, fieldName)).t = "number"

\* ToNumber of an operand of < or >: a blank string is 0, other text is NaN.
IsNaN(v) == v.t = "string" /\ Trim(v.s) # <<>>

ToNumber(v) == IF v.t = "number" THEN v.n ELSE 0

\* JavaScript's x < y: on code units for two strings, on numbers otherwise.
JsLess(x, y) ==
    IF x.t = "string" /\ y.t = "string" THEN StrLess(x.s, y.s)
    ELSE ~IsNaN(x) /\ ~IsNaN(y) /\ ToNumber(x) < ToNumber(y)

\* The comparator of _sortData, where it does not throw.
Compare(a, b, fieldName, sortDirection) ==
    LET isReverse == IF sortDirection = "desc" THEN -1 ELSE 1
        rawA == OrEmpty(Field(a, fieldName))
        rawB == OrEmpty(Field(b, fieldName))
        valueA == IF rawA.t = "string" THEN Str(ToLowerCase(rawA.s)) ELSE rawA
        valueB == IF rawA.t = "string" THEN Str(ToLowerCase(rawB.s)) ELSE rawB
    IN IF JsLess(valueB, valueA) THEN isReverse
       ELSE IF JsLess(valueA, valueB) THEN -isReverse
       ELSE 0

\* Whether x sorts before y.  The engine chooses which of the two rows it
\* hands to the comparator first; the call that throws is avoided here, the
\* throw itself is an outcome of handleSort.
Before(x, y, fieldName, sortDirection) ==
    IF CompareThrows(x, y, fieldName)
    THEN Compare(y, x, fieldName, sortDirection) > 0
    ELSE Compare(x, y, fieldName, sortDirection) < 0

\* Variant: an unstable sort, x overtakes the rows it ties with.
RECURSIVE InsertRowUnstable(_, _, _, _)
InsertRowUnstable(s, x, fieldName, sortDirection) ==
    IF s = <<>> THEN <<x>>
    ELSE IF ~Before(Head(s), x, fieldName, sortDirection) THEN <<x>> \o s
    ELSE <<Head(s)>> \o InsertRowUnstable(Tail(s), x, fieldName, sortDirection)

\* Array.prototype.sort is stable: x goes after every element it does not precede.
RECURSIVE InsertRow(_, _, _, _)
InsertRow(s, x, fieldName, sortDirection) ==
    IF s = <<>> THEN <<x>>
    ELSE IF Before(x, Head(s), fieldName, sortDirection) THEN <<x>> \o s
    ELSE <<Head(s)>> \o InsertRow(Tail(s), x, fieldName, sortDirection)

RECURSIVE _sortData(_, _, _)
_sortData(data, fieldName, sortDirection) ==
    IF data = <<>> THEN <<>>
    ELSE InsertRow(_sortData(SubSeq(data, 1, Len(data) - 1), fieldName, sortDirection),
                   data[Len(data)], fieldName, sortDirection)

\* Array.prototype.sort leaves the order of the comparator calls to the
\* engine: the sort can throw when some call compare(a, b) on two of the rows
\* throws.
SortMayThrow(data, fieldName) ==
    \E i, j \in 1..Len(data) : i # j /\ CompareThrows(data[i], data[j], fieldName)

\* Variant: the sort reorders the paginated rows whatever the search box holds.
SortsSearchRowsNever(c) == FALSE

\* The array a sort reorders: the search rows while a search is active.
SortsSearchRows(c) == _isSearchActive(c)

handleSort(c, fieldName, sortDirection) ==
    LET sortField == IF fieldName = "recordUrl" THEN "Name" ELSE fieldName
        data == IF SortsSearchRows(c) THEN searchRows[c] ELSE paginated[c]
    IN /\ connected = "connected"
       /\ \E thrown \in {FALSE} \cup {SortMayThrow(data, sortField)} :
            IF thrown
            THEN /\ used' = [used EXCEPT !.sort = @ + 1, !.threw = @ + 1]
                 /\ UNCHANGED <<searchRows, paginated>>
            ELSE /\ used' = [used EXCEPT !.sort = @ + 1]
                 /\ IF SortsSearchRows(c)
                    THEN /\ searchRows' = [searchRows EXCEPT ![c] =
                                              _sortData(@, sortField, sortDirection)]
                         /\ UNCHANGED paginated
                    ELSE /\ paginated' = [paginated EXCEPT ![c] =
                                             _sortData(@, sortField, sortDirection)]
                         /\ UNCHANGED searchRows
       /\ UNCHANGED <<server, connected, totalCount, offset, hasMore, draftValues, isLoading,
                      isSaving, error, searchTerm, isSearching, debounceTimer, loading, tasks,
                      toasts, searchLog, rowsTerm>>

\* ------------------------------------------------------------------ refresh
\* Variant: the refresh leaves the search boxes as they are.
RefreshKeptSearchTerm == searchTerm

\* The search terms handleRefresh assigns.
RefreshedSearchTerm == [c \in Coll |-> <<>>]

\* handleRefresh up to await this._loadInitialData().
handleRefresh ==
    /\ connected = "connected"
    /\ HasFreeSlot
    /\ used' = [used EXCEPT !.refresh = @ + 1]
    /\ isLoading' = TRUE
    /\ paginated' = [c \in Coll |-> <<>>]
    /\ searchRows' = [c \in Coll |-> <<>>]
    /\ rowsTerm' = [c \in Coll |-> <<>>]
    /\ offset' = [c \in Coll |-> 0]
    /\ hasMore' = [c \in Coll |-> TRUE]
    /\ searchTerm' = RefreshedSearchTerm
    /\ tasks' = [tasks EXCEPT ![FreeSlot] =
                    NewTask("refresh", "contact", "load", LoadInitialDataReqs)]
    /\ UNCHANGED <<server, connected, totalCount, draftValues, isSaving, error, isSearching,
                   debounceTimer, loading, toasts, searchLog>>

\* handleRefresh resumes after _loadInitialData, which catches its own errors.
RefreshDone(i) ==
    /\ tasks[i].kind = "refresh"
    /\ Settled(tasks[i])
    /\ LoadInitialDataApply(tasks[i])
    /\ toasts' = Append(toasts, "Refreshed")
    /\ tasks' = [tasks EXCEPT ![i] = IdleTask]
    /\ UNCHANGED <<server, connected, searchRows, draftValues, isSaving, searchTerm,
                   isSearching, debounceTimer, loading, searchLog, rowsTerm, used>>

\* ------------------------------------------------------------------ specification
\* User events counted against the budget.
Events ==
    used.keys + used.more["contact"] + used.more["opportunity"] + used.del + used.save
    + used.edit + used.sort + used.refresh

\* The user works on the contacts tab, once the spinner of the initial load or
\* of a refresh is gone; the opportunities are loaded and refreshed alongside.
UserColl == {"contact"}

UserEvent == Events < MaxEvents /\ ~isLoading

Init == Constructed({n \in [Coll -> 0..MaxRows] : n["opportunity"] = 1})

Next ==
    \/ connectedCallback
    \/ \E i \in TaskIds : \E k \in 1..4 : ServeOk(i, k)
    \/ \E i \in TaskIds : \E k \in 1..4 : used.fail < MaxFail /\ ServeErr(i, k)
    \/ \E i \in TaskIds : LoadInitialDataDone(i)
    \/ \E c \in UserColl : UserEvent /\ handleLoadMore(c)
    \/ \E i \in TaskIds : LoadMoreDone(i)
    \/ \E c \in UserColl : \E value \in SearchInputs : UserEvent /\ handleSearch(c, value)
    \/ \E c \in UserColl : DebounceFire(c)
    \/ \E i \in TaskIds : ExecuteSearchDone(i)
    \/ \E c \in UserColl : \E k \in 1..MaxRows : UserEvent /\ handleRowActionDelete(c, k)
    \/ \E i \in TaskIds : DeleteRowAfterDelete(i)
    \/ \E c \in UserColl : \E k \in 1..MaxRows : \E name \in EditNames :
           UserEvent /\ EditCell(c, k, name)
    \/ \E c \in UserColl : handleCancel(c)
    \/ \E c \in UserColl : UserEvent /\ handleSave(c)
    \/ \E i \in TaskIds : SaveAfterUpdate(i)
    \/ \E i \in TaskIds : SaveAfterNotify(i)
    \/ \E i \in TaskIds : AfterSearch(i)
    \/ \E i \in TaskIds : AfterReload(i)
    \/ \E c \in UserColl : \E f \in SortFields : \E d \in SortDirections :
           UserEvent /\ handleSort(c, f, d)
    \/ UserEvent /\ handleRefresh
    \/ \E i \in TaskIds : RefreshDone(i)

Spec == Init /\ [][Next]_vars

\* Paging alone: the initial load, then load-more events issued one at a time,
\* each after the previous one completed, against a static server that answers
\* every request.
PagingSizes == [Coll -> 0..(2 * PAGE_SIZE + 1)]

InitPaging == Constructed(PagingSizes)

NextPaging ==
    \/ connectedCallback
    \/ \E i \in TaskIds : \E k \in 1..4 : ServeOk(i, k)
    \/ \E i \in TaskIds : LoadInitialDataDone(i)
    \/ \E c \in Coll : Idle /\ used.more[c] < MaxEvents /\ handleLoadMore(c)
    \/ \E i \in TaskIds : LoadMoreDone(i)

SpecPaging == InitPaging /\ [][NextPaging]_vars

\* Search alone: keystrokes, debounce firings and search responses (fulfilled
\* or rejected) in every order, on a server that keeps its rows.
InitSearch == Constructed({n \in [Coll -> 0..MaxRows] :
                              n["contact"] = MaxRows /\ n["opportunity"] = 1})

NextSearch ==
    \/ connectedCallback
    \/ \E i \in TaskIds : \E k \in 1..4 : ServeOk(i, k)
    \/ \E i \in TaskIds : \E k \in 1..4 : used.fail < MaxFail /\ ServeErr(i, k)
    \/ \E i \in TaskIds : LoadInitialDataDone(i)
    \/ \E c \in UserColl : \E value \in SearchInputs :
           used.keys <= MaxEvents /\ ~isLoading /\ handleSearch(c, value)
    \/ \E c \in UserColl : DebounceFire(c)
    \/ \E i \in TaskIds : ExecuteSearchDone(i)

SpecSearch == InitSearch /\ [][NextSearch]_vars

\* Search on both tabs and teardown: keystrokes in either search box, debounce
\* firings, search responses, and the component being removed at any moment.
NextTeardown ==
    \/ connectedCallback
    \/ \E i \in TaskIds : \E k \in 1..4 : ServeOk(i, k)
    \/ \E i \in TaskIds : \E k \in 1..4 : used.fail < MaxFail /\ ServeErr(i, k)
    \/ \E i \in TaskIds : LoadInitialDataDone(i)
    \/ \E c \in Coll : \E value \in SearchInputs :
           used.keys < MaxEvents /\ ~isLoading /\ handleSearch(c, value)
    \/ \E c \in Coll : DebounceFire(c)
    \/ \E i \in TaskIds : ExecuteSearchDone(i)
    \/ disconnectedCallback

SpecTeardown == InitSearch /\ [][NextTeardown]_vars

\* Both tabs in use: every user event on either collection, over a server
\* holding MaxRows rows of each.
BothEvent == Events < MaxBothEvents /\ ~isLoading

InitBoth == Constructed({[c \in Coll |-> MaxRows]})

NextBoth ==
    \/ connectedCallback
    \/ \E i \in TaskIds : \E k \in 1..4 : ServeOk(i, k)
    \/ \E i \in TaskIds : \E k \in 1..4 : used.fail < MaxFail /\ ServeErr(i, k)
    \/ \E i \in TaskIds : LoadInitialDataDone(i)
    \/ \E c \in Coll : BothEvent /\ handleLoadMore(c)
    \/ \E i \in TaskIds : LoadMoreDone(i)
    \/ \E c \in Coll : \E value \in SearchInputs : BothEvent /\ handleSearch(c, value)
    \/ \E c \in Coll : DebounceFire(c)
    \/ \E i \in TaskIds : ExecuteSearchDone(i)
    \/ \E c \in Coll : \E k \in 1..MaxRows : BothEvent /\ handleRowActionDelete(c, k)
    \/ \E i \in TaskIds : DeleteRowAfterDelete(i)
    \/ \E c \in Coll : \E k \in 1..MaxRows : \E name \in EditNames :
           BothEvent /\ EditCell(c, k, name)
    \/ \E c \in Coll : handleCancel(c)
    \/ \E c \in Coll : BothEvent /\ handleSave(c)
    \/ \E i \in TaskIds : SaveAfterUpdate(i)
    \/ \E i \in TaskIds : SaveAfterNotify(i)
    \/ \E i \in TaskIds : AfterSearch(i)
    \/ \E i \in TaskIds : AfterReload(i)
    \/ \E c \in Coll : \E f \in SortFields : \E d \in SortDirections :
           BothEvent /\ handleSort(c, f, d)
    \/ BothEvent /\ handleRefresh
    \/ \E i \in TaskIds : RefreshDone(i)

SpecBoth == InitBoth /\ [][NextBoth]_vars

\* Sorting alone: opportunities whose names tie, differ in case or are blank
\* and whose amounts are present or missing are loaded page by page and sorted
\* by either column in either direction.
SortNames == { <<>>, <<"a">>, <<"B">>, <<"b">> }

SortAmounts == {1, 2}

SortRows(k) ==
    {[Id |-> IdBase("opportunity") + k, Name |-> n] : n \in SortNames}
    \cup {[Id |-> IdBase("opportunity") + k, Name |-> n, Amount |-> m] :
             n \in SortNames, m \in SortAmounts}

SortServers ==
    {[c \in Coll |-> IF c = "contact" THEN <<>> ELSE rows] :
        rows \in UNION {{r \in [1..n -> UNION {SortRows(k) : k \in 1..MaxSortRows}] :
                            \A k \in 1..n : r[k] \in SortRows(k)} : n \in 1..MaxSortRows}}

OpportunitySortFields == {"recordUrl", "Amount"}

InitSort == ConstructedOver(SortServers)

NextSort ==
    \/ connectedCallback
    \/ \E i \in TaskIds : \E k \in 1..4 : ServeOk(i, k)
    \/ \E i \in TaskIds : LoadInitialDataDone(i)
    \/ Idle /\ used.more["opportunity"] < 1 /\ handleLoadMore("opportunity")
    \/ \E i \in TaskIds : LoadMoreDone(i)
    \/ \E f \in OpportunitySortFields : \E d \in SortDirections :
           Idle /\ ~isLoading /\ used.sort < MaxSorts /\ handleSort("opportunity", f, d)

SpecSort == InitSort /\ [][NextSort]_vars

\* ------------------------------------------------------------------ properties
Prefix(rows, n) == SubSeq(rows, 1, Min(n, Len(rows)))

IsLoadMoreDone(i) == tasks[i].kind = "loadMore" /\ tasks'[i].kind = "none"

\* C1: after the initial load and k load-more calls issued one after the other,
\* the paginated rows are the first min(N, (k+1)*PAGE_SIZE) server rows in
\* server order, offset is their number, hasMore is false exactly when some
\* fetch returned fewer than PAGE_SIZE rows, and every load-more advances
\* offset by the number of rows it returned.
C1_PagedPrefixState ==
    \A c \in Coll :
        (connected = "connected" /\ Idle) =>
            LET fetched == (used.more[c] + 1) * PAGE_SIZE
            IN /\ paginated[c] = _addRecordUrls(Prefix(server[c], fetched))
               /\ offset[c] = Min(Len(server[c]), fetched)
               /\ hasMore[c] <=> (fetched <= Len(server[c]))

C1_PagedPrefixStep ==
    \A i \in TaskIds :
        IsLoadMoreDone(i) =>
            LET c == tasks[i].c
                got == tasks[i].reqs[1].rows
            IN /\ offset'[c] = offset[c] + Len(got)
               /\ paginated'[c] = paginated[c] \o _addRecordUrls(got)

C1_PagedPrefix == []C1_PagedPrefixState /\ [][C1_PagedPrefixStep]_vars

\* 2 * PAGE_SIZE + 1 rows: a full page, a second full page, then the last row.
C1_Witness ==
    \E c \in Coll :
        /\ Idle
        /\ Len(server[c]) = 2 * PAGE_SIZE + 1
        /\ used.more[c] = 2
        /\ offset[c] = 2 * PAGE_SIZE + 1
        /\ ~hasMore[c]

\* C4: offset equals the number of rows held in the paginated sequence.
C4_OffsetIsRowCount == \A c \in Coll : offset[c] = Len(paginated[c])

\* A reload after a delete has replaced a window that load-more had grown.
C4_Witness ==
    \E c \in Coll :
        /\ Idle
        /\ used.del = 1
        /\ used.more[c] > 0
        /\ toasts = <<"Deleted">>
        /\ offset[c] = PAGE_SIZE
        /\ Len(server[c]) = PAGE_SIZE

TermA == <<"a">>

TermAB == <<"a", "b">>

AllFulfilled(log) == \A k \in 1..Len(log) : log[k].st = "ok" /\ log[k].done > 0

\* C2: when every search request of a collection has been answered, no
\* further one is due, and the request issued last carries the live term, the
\* displayed rows are the rows of that last request, in whatever order the
\* responses arrived ("a" then "ab" issued, "a" answered last: the "ab" rows
\* are displayed).
C2_LastTermWins ==
    \A c \in Coll :
        LET log == searchLog[c]
        IN (/\ Len(log) >= 2
            /\ AllFulfilled(log)
            /\ debounceTimer[c] = <<>>
            /\ log[Len(log)].term = Trim(searchTerm[c]))
           => displayed(c) = _addRecordUrls(log[Len(log)].rows)

\* "a" then "ab" were issued, "ab" was answered first and "a" last, and the
\* two results differ.
C2_Witness ==
    \E c \in Coll :
        LET log == searchLog[c]
        IN /\ Len(log) = 2
           /\ log[1].term = TermA /\ log[1].st = "ok" /\ log[1].done = 2
           /\ log[2].term = TermAB /\ log[2].st = "ok" /\ log[2].done = 1
           /\ log[1].rows # log[2].rows
           /\ Trim(searchTerm[c]) = TermAB

\* C3 as stated: the search rows held were fetched for the current trimmed
\* term.
C3_RowsMatchCurrentTerm ==
    \A c \in Coll : searchRows[c] # <<>> => rowsTerm[c] = << Trim(searchTerm[c]) >>

IsPermutation(s, t) ==
    /\ Len(s) = Len(t)
    /\ \E f \in [1..Len(s) -> 1..Len(s)] :
           /\ \A j, k \in 1..Len(s) : j # k => f[j] # f[k]
           /\ \A j \in 1..Len(s) : t[j] = s[f[j]]

\* A response of a search for the current trimmed term of c resumes its handler.
AppliesCurrentSearch(c) ==
    \E i \in TaskIds :
        /\ tasks[i].pc = "search"
        /\ tasks[i].c = c
        /\ tasks'[i] # tasks[i]
        /\ tasks[i].reqs[1].st = "ok"
        /\ tasks[i].term = Trim(searchTerm[c])
        /\ tasks[i].reqs[1].t = tasks[i].term
        /\ searchRows'[c] = _addRecordUrls(tasks[i].reqs[1].rows)
        /\ rowsTerm'[c] = << Trim(searchTerm'[c]) >>

\* No search of c is due or on its way.
SearchQuiet(c) ==
    /\ debounceTimer[c] = <<>>
    /\ \A i \in TaskIds : ~(tasks[i].kind # "none" /\ tasks[i].pc = "search" /\ tasks[i].c = c)

C3_AppliedStep ==
    \A c \in Coll :
        searchRows'[c] # searchRows[c] =>
            \/ searchRows'[c] = <<>>
            \/ used.sort' # used.sort /\ IsPermutation(searchRows[c], searchRows'[c])
            \/ AppliesCurrentSearch(c)

C3_SettledState ==
    \A c \in Coll :
        (_isSearchActive(c) /\ SearchQuiet(c) /\ searchRows[c] # <<>>) =>
            rowsTerm[c] = << Trim(searchTerm[c]) >>

\* C3 as amended: the search rows change only by being emptied, by a sort of
\* the rows held, or by the rows of a response whose term is the current
\* trimmed term when it is applied; rows of an earlier term stay held while
\* the term has moved on, and once no search of the collection is due or on
\* its way the rows held are rows fetched for the current trimmed term.
C3_RowsAppliedForCurrentTerm == []C3_SettledState /\ [][C3_AppliedStep]_vars

\* Rows fetched for "a" are still held after the term has become "ab", while
\* the search for "ab" is on its way.
C3_Witness ==
    \E c \in Coll :
        /\ rowsTerm[c] = << TermA >>
        /\ searchRows[c] # <<>>
        /\ Trim(searchTerm[c]) = TermAB
        /\ \E i \in TaskIds : tasks[i].kind = "search" /\ tasks[i].term = TermAB

\* C7: while the trimmed search term is empty the search rows are empty and
\* the active view is the paginated rows; the keystroke that clears the term
\* empties the rows at once, arms no timer and sends no request.
C7_ClearedState ==
    \A c \in Coll :
        Trim(searchTerm[c]) = <<>> => searchRows[c] = <<>> /\ displayed(c) = paginated[c]

C7_ClearingStep ==
    \A c \in Coll :
        (used.keys' # used.keys /\ searchTerm'[c] # searchTerm[c]
            /\ Trim(searchTerm'[c]) = <<>>) =>
                /\ searchRows'[c] = <<>>
                /\ debounceTimer'[c] = <<>>
                /\ UNCHANGED <<tasks, paginated, server>>

C7_ClearedShowsPaginated == []C7_ClearedState /\ [][C7_ClearingStep]_vars

\* The term was cleared while a search was on its way, and its response, with
\* rows, has arrived.
C7_Witness ==
    \E i \in TaskIds :
        /\ tasks[i].kind = "search"
        /\ tasks[i].reqs[1].st = "ok"
        /\ tasks[i].reqs[1].rows # <<>>
        /\ Trim(searchTerm[tasks[i].c]) = <<>>
        /\ searchTerm[tasks[i].c] # <<>>
        /\ paginated[tasks[i].c] # <<>>

LoadMoreTasks(c) == {i \in TaskIds : tasks[i].kind = "loadMore" /\ tasks[i].c = c}

\* C5: a load-more event in search mode, or while a load-more fetch of the
\* collection is outstanding, changes nothing and sends nothing; at most one
\* load-more fetch per collection is in flight.
C5_SingleFetch == \A c \in Coll : Cardinality(LoadMoreTasks(c)) <= 1

C5_BlockedIsNoOp ==
    \A c \in Coll :
        (used.more'[c] # used.more[c] /\ (_isSearchActive(c) \/ LoadMoreTasks(c) # {})) =>
            UNCHANGED <<server, pvars, tasks, toasts>>

C5_LoadMoreGuard == []C5_SingleFetch /\ [][C5_BlockedIsNoOp]_vars

\* Two load-more events, the second while the fetch of the first is still
\* outstanding: one fetch is in flight and the first page is all there is.
C5_Witness ==
    \E c \in Coll :
        /\ used.more[c] = 2
        /\ used.keys = 0
        /\ Cardinality(LoadMoreTasks(c)) = 1
        /\ offset[c] = PAGE_SIZE
        /\ loading[c]

IsLoadDone(i) == tasks[i].kind \in {"init", "refresh"} /\ tasks'[i].kind = "none"

\* C6: once hasMore is false it stays false until an explicit refresh (the
\* refresh itself, or the load it runs).
C6_HasMoreStaysFalse ==
    [][\A c \in Coll :
          (~hasMore[c] /\ hasMore'[c]) =>
              \/ used.refresh' # used.refresh
              \/ \E i \in TaskIds : IsLoadDone(i)]_vars

\* The save or delete handler of task i takes its catch branch after the
\* rejection of its first await (an update of the batch, or the delete).
IsWriteRejected(i) ==
    /\ tasks[i].kind \in {"save", "delete"}
    /\ tasks[i].pc \in {"update", "delete"}
    /\ Rejected(tasks[i])
    /\ tasks'[i].kind # tasks[i].kind \/ tasks'[i].pc # tasks[i].pc

\* C8: a rejected update or delete dispatches the error notification and
\* leaves rows, offset, hasMore, TotalCount, search term and drafts as they
\* were; no reload and no search is sent.
C8_RejectedWriteStep ==
    \A i \in TaskIds :
        IsWriteRejected(i) =>
            /\ toasts' = Append(toasts,
                   IF tasks[i].kind = "delete" THEN "Error Deleting Record"
                   ELSE IF tasks[i].c = "contact" THEN "Error Updating Contacts"
                   ELSE "Error Updating Opportunities")
            /\ UNCHANGED <<paginated, searchRows, offset, hasMore, totalCount, searchTerm,
                           draftValues, server, searchLog, isSearching>>
            /\ \A j \in TaskIds : j # i => tasks'[j] = tasks[j]
            /\ tasks'[i].kind \in {"none", "orphan"}
            /\ tasks'[i].kind = "orphan" => tasks'[i].reqs = tasks[i].reqs

C8_RejectedWriteLeavesState == [][C8_RejectedWriteStep]_vars

\* A save whose update was rejected has returned: its error is shown, the
\* draft is still there and the server row keeps its name.
C8_Witness ==
    /\ Idle
    /\ toasts = <<"Error Updating Contacts">>
    /\ draftValues["contact"] # <<>>
    /\ paginated["contact"] # <<>>
    /\ \A k \in 1..Len(server["contact"]) :
           server["contact"][k].Name = InitialName(server["contact"][k].Id)

\* The delete handler of task i returns after deleteRecord succeeded.
IsDeleteDone(i) ==
    /\ tasks[i].kind = "delete"
    /\ tasks[i].pc # "delete"
    /\ tasks'[i].kind = "none"

\* C9: when a delete that the gateway accepted has completed, TotalCount is one
\* less than before the delete and the deleted identifier is in neither the
\* paginated rows nor, in search mode, the search rows.
C9_DeleteStep ==
    \A i \in TaskIds :
        IsDeleteDone(i) =>
            LET c == tasks[i].c
                id == tasks[i].row.Id
            IN /\ totalCount'[c] = tasks[i].count0 - 1
               /\ id \notin Ids(paginated'[c])
               /\ _isSearchActive(c) => id \notin Ids(searchRows'[c])

C9_DeleteResynchronises == [][C9_DeleteStep]_vars

IsSave(i) == tasks[i].kind = "save"

ReloadOfOffset(t, c) ==
    /\ t.pc = "reload"
    /\ Len(t.reqs) = 2
    /\ t.reqs[1].op = "page" /\ t.reqs[1].c = c /\ t.reqs[1].st = "sent"
    /\ t.reqs[1].a = offset[c] /\ t.reqs[1].b = 0
    /\ t.reqs[2].op = "count" /\ t.reqs[2].c = c /\ t.reqs[2].st = "sent"

SearchOfTerm(t, c) ==
    /\ t.pc = "search"
    /\ Len(t.reqs) = 1
    /\ t.reqs[1].op = "search" /\ t.reqs[1].c = c /\ t.reqs[1].st = "sent"
    /\ t.reqs[1].t = Trim(searchTerm[c])

\* C10: a save whose updates all succeeded notifies the cache, then clears the
\* drafts, then re-runs the search for the current trimmed term exactly when
\* search mode is active and waits for it, then fetches offset rows from
\* position 0 with the count, and replaces the paginated rows and TotalCount
\* by the results.
C10_SaveStep ==
    \A i \in TaskIds :
        (IsSave(i) /\ tasks'[i] # tasks[i] /\ tasks'[i].pc # tasks[i].pc
                   /\ tasks'[i].kind # "orphan") =>
            LET t == tasks[i]
                u == tasks'[i]
                c == t.c
            IN CASE t.pc = "update" ->
                       IF Fulfilled(t)
                       THEN /\ u.pc = "notify"
                            /\ Len(u.reqs) = 1 /\ u.reqs[1].op = "notify"
                            /\ UNCHANGED <<draftValues, paginated, totalCount, searchRows>>
                       ELSE u.kind = "none" /\ UNCHANGED <<draftValues, paginated, totalCount>>
                 [] t.pc = "notify" ->
                       IF Fulfilled(t)
                       THEN /\ draftValues'[c] = <<>>
                            /\ IF Len(Trim(searchTerm[c])) > 0 THEN SearchOfTerm(u, c)
                                                               ELSE ReloadOfOffset(u, c)
                            /\ UNCHANGED <<paginated, totalCount>>
                       ELSE u.kind = "none" /\ UNCHANGED <<draftValues, paginated, totalCount>>
                 [] t.pc = "search" ->
                       /\ t.reqs[1].st # "sent"
                       /\ ReloadOfOffset(u, c)
                       /\ UNCHANGED <<paginated, totalCount>>
                 [] OTHER ->
                       /\ u.kind = "none"
                       /\ Fulfilled(t) =>
                              /\ paginated'[c] = _addRecordUrls(t.reqs[1].rows)
                              /\ totalCount'[c] = t.reqs[2].count

C10_SaveSequence == [][C10_SaveStep]_vars

\* A save in search mode has run to its end: the search was re-run (a second
\* search request after the one of the debounce) and the window reloaded.
C10_Witness ==
    /\ Idle
    /\ toasts = <<"Success">>
    /\ used.save = 1
    /\ draftValues["contact"] = <<>>
    /\ _isSearchActive("contact")
    /\ Len(searchLog["contact"]) = 2
    /\ \E k \in 1..Len(paginated["contact"]) :
           paginated["contact"][k].Name # InitialName(paginated["contact"][k].Id)

\* The delete handler of task i returns after a reload that was fulfilled with
\* fewer rows than it had requested.
IsShortReloadDone(i) ==
    /\ IsDeleteDone(i)
    /\ tasks[i].pc = "reload"
    /\ Fulfilled(tasks[i])
    /\ Len(tasks[i].reqs[1].rows) < tasks[i].reqs[1].a

\* C11: when the reload of a delete returns fewer rows than it requested,
\* hasMore is false once the delete has completed.
C11_ShortReloadClearsHasMore ==
    [][\A i \in TaskIds : IsShortReloadDone(i) => ~hasMore'[tasks[i].c]]_vars

\* A full first page was all there was (hasMore true); its last row was
\* deleted and the reload of PAGE_SIZE rows returned PAGE_SIZE - 1.
C11_Witness ==
    \E c \in Coll :
        /\ Idle
        /\ toasts = <<"Deleted">>
        /\ used.more[c] = 0
        /\ Events = 1
        /\ Len(server[c]) = PAGE_SIZE - 1
        /\ offset[c] = PAGE_SIZE - 1
        /\ ~hasMore[c]

IsLoadIssued(i) == tasks[i].kind = "none" /\ tasks'[i].kind \in {"init", "refresh"}

\* The four sub-fetches of the initial load, all outstanding.
FourFetchesSent(t) ==
    /\ Len(t.reqs) = 4
    /\ \A k \in 1..4 : t.reqs[k].st = "sent"
    /\ t.reqs[1].op = "page" /\ t.reqs[1].c = "contact"
    /\ t.reqs[2].op = "page" /\ t.reqs[2].c = "opportunity"
    /\ t.reqs[3].op = "count" /\ t.reqs[3].c = "contact"
    /\ t.reqs[4].op = "count" /\ t.reqs[4].c = "opportunity"
    /\ \A k \in 1..2 : t.reqs[k].a = PAGE_SIZE /\ t.reqs[k].b = 0

\* C12: the initial load sends its four fetches together; it resumes when
\* all four are fulfilled, and then assigns rows, counts, offsets and flags of
\* both collections, or when one is rejected, and then leaves rows, offset,
\* hasMore and TotalCount of both collections as they were and marks both
\* collections errored; either way it clears the loading flag.
C12_LoadStep ==
    \A i \in TaskIds :
        /\ IsLoadIssued(i) => FourFetchesSent(tasks'[i]) /\ isLoading'
        /\ IsLoadDone(i) =>
               LET t == tasks[i]
               IN /\ Rejected(t) \/ Fulfilled(t)
                  /\ isLoading' = FALSE
                  /\ IF Rejected(t)
                     THEN /\ UNCHANGED <<paginated, offset, hasMore, totalCount, searchRows>>
                          /\ error' = [c \in Coll |-> TRUE]
                     ELSE /\ paginated' = [c \in Coll |-> _addRecordUrls(PageOf(t, c))]
                          /\ totalCount' = [c \in Coll |-> CountOf(t, c)]
                          /\ offset' = [c \in Coll |-> Len(PageOf(t, c))]
                          /\ error' = [c \in Coll |-> FALSE]

C12_InitialLoadAllOrNothing == [][C12_LoadStep]_vars

\* The initial load failed over a server that holds contacts: both
\* collections are errored, nothing is loaded, the spinner is gone.
C12_Witness ==
    /\ Idle
    /\ connected = "connected"
    /\ used.fail = 1
    /\ Events = 0
    /\ error = [c \in Coll |-> TRUE]
    /\ ~isLoading
    /\ Len(server["contact"]) > 0
    /\ paginated = [c \in Coll |-> <<>>]
    /\ totalCount = [c \in Coll |-> 0]
    /\ offset = [c \in Coll |-> 0]

IsRefreshDone(i) == tasks[i].kind = "refresh" /\ tasks'[i].kind = "none"

\* Nothing is in flight: no handler is suspended and no debounce timer is armed.
NothingInFlight == Idle /\ debounceTimer = [c \in Coll |-> <<>>]

\* C13: the refresh event empties the paginated rows, the search rows and
\* the search terms of both collections, zeroes both offsets, sets both
\* hasMore flags and sends the four fetches of the initial load; when the
\* refresh completes with its load fulfilled and nothing else in flight, each
\* collection is in pagination mode and displays the first page the load
\* fetched (the first PAGE_SIZE rows of the server when no write was sent),
\* with offset equal to its length.
C13_RefreshStep ==
    /\ used.refresh' # used.refresh =>
           /\ paginated' = [c \in Coll |-> <<>>]
           /\ searchRows' = [c \in Coll |-> <<>>]
           /\ offset' = [c \in Coll |-> 0]
           /\ hasMore' = [c \in Coll |-> TRUE]
           /\ searchTerm' = [c \in Coll |-> <<>>]
           /\ \E i \in TaskIds : IsLoadIssued(i) /\ FourFetchesSent(tasks'[i])
    /\ \A i \in TaskIds :
           (IsRefreshDone(i) /\ Fulfilled(tasks[i]) /\ NothingInFlight') =>
               \A c \in Coll :
                   /\ ~_isSearchActive(c)'
                   /\ displayed(c)' = _addRecordUrls(PageOf(tasks[i], c))
                   /\ (used.del = 0 /\ used.save = 0) =>
                          displayed(c)' = _addRecordUrls(Prefix(server[c], PAGE_SIZE))
                   /\ offset'[c] = Len(displayed(c)')

IsFailureHandled(i) ==
    /\ tasks[i].kind \notin {"none", "orphan"}
    /\ Rejected(tasks[i])
    /\ tasks'[i].kind # tasks[i].kind \/ tasks'[i].pc # tasks[i].pc

\* The collections a failure of task t affects.
AffectedColl(t) == IF t.kind \in {"init", "refresh"} THEN Coll ELSE {t.c}

\* C14 as stated: every failed gateway operation dispatches a notification
\* and sets the error flag of the collection it affects.
C14_FailureNotifiesAndFlags ==
    [][\A i \in TaskIds :
          IsFailureHandled(i) =>
              /\ Len(toasts') = Len(toasts) + 1
              /\ \A c \in AffectedColl(tasks[i]) : error'[c]]_vars

IsKeystroke(c) == used.keys' # used.keys /\ searchTerm'[c] # searchTerm[c]

IsTimerFired(c) ==
    /\ debounceTimer'[c] # debounceTimer[c]
    /\ used.keys' = used.keys
    /\ connected' = connected

\* Exactly one search request, for term, is sent in this step.
OneSearchSent(c, term) ==
    /\ searchLog'[c] = Append(searchLog[c], LogEntry(term))
    /\ \E i \in TaskIds :
           /\ tasks[i].kind = "none"
           /\ tasks'[i].kind = "search"
           /\ tasks'[i].reqs = << Request("search", c, 0, 0, term) >>
           /\ \A j \in TaskIds : j # i => tasks'[j] = tasks[j]

\* C15: at most one debounce timer per collection is armed; a keystroke
\* replaces the pending timer by one for its trimmed term, or by none when
\* the trimmed term is empty, and sends nothing; a timer that fires sends
\* exactly one search request, carrying the trimmed term of the keystroke
\* that armed it.
C15_OneTimer == \A c \in Coll : Len(debounceTimer[c]) <= 1

C15_TimerStep ==
    \A c \in Coll :
        /\ IsKeystroke(c) =>
               /\ debounceTimer'[c] =
                      IF Trim(searchTerm'[c]) = <<>> THEN <<>> ELSE << Trim(searchTerm'[c]) >>
               /\ UNCHANGED <<tasks, searchLog, server>>
        /\ IsTimerFired(c) =>
               /\ debounceTimer[c] # <<>>
               /\ debounceTimer'[c] = <<>>
               /\ OneSearchSent(c, debounceTimer[c][1])

C15_DebounceOneTimer == []C15_OneTimer /\ [][C15_TimerStep]_vars

\* A burst of two keystrokes, then the timer fired: one request, for "ab".
C15_Witness ==
    \E c \in Coll :
        /\ used.keys = 2
        /\ debounceTimer[c] = <<>>
        /\ Len(searchLog[c]) = 1
        /\ searchLog[c][1].term = TermAB
        /\ searchTerm[c] = TermAB

\* The response of a search for the current trimmed term of c resumes its
\* handler.
IsCurrentSearchDone(c) ==
    \E i \in TaskIds :
        /\ tasks[i].kind # "none"
        /\ tasks[i].pc = "search"
        /\ tasks[i].c = c
        /\ tasks[i].term = Trim(searchTerm[c])
        /\ tasks'[i].pc # "search"

\* C16 as stated: the search-in-flight indicator of a collection goes from
\* true to false only when a request whose term is the current term
\* completes (or the search box is cleared); a response for another term
\* leaves it true.
C16_StaleKeepsSearching ==
    [][\A c \in Coll :
          (isSearching[c] /\ ~isSearching'[c]) =>
              \/ IsKeystroke(c) /\ Trim(searchTerm'[c]) = <<>>
              \/ IsCurrentSearchDone(c)]_vars

\* C17: a load-more whose fetch was rejected sets hasMore false, leaves the
\* paginated rows and the offset as they were and clears the in-flight flag;
\* a fulfilled one clears the in-flight flag as well.
C17_LoadMoreStep ==
    \A i \in TaskIds :
        IsLoadMoreDone(i) =>
            LET c == tasks[i].c
            IN /\ loading[c] /\ ~loading'[c]
               /\ Rejected(tasks[i]) =>
                      /\ ~hasMore'[c]
                      /\ UNCHANGED <<paginated, offset>>

C17_FailedLoadMoreFailsClosed == [][C17_LoadMoreStep]_vars

\* The first page is loaded, more rows exist, and the one load-more fetch was
\* rejected: the first page is still there and load-more is off.
C17_Witness ==
    \E c \in Coll :
        /\ Idle
        /\ Events = 1
        /\ used.more[c] = 1
        /\ used.fail = 1
        /\ ~error[c]
        /\ Len(server[c]) > PAGE_SIZE
        /\ paginated[c] = _addRecordUrls(Prefix(server[c], PAGE_SIZE))
        /\ offset[c] = PAGE_SIZE
        /\ ~hasMore[c]
        /\ ~loading[c]

\* The handler of a search of c resumes after its request was rejected.
IsSearchFailed(i) ==
    /\ tasks[i].kind # "none"
    /\ tasks[i].pc = "search"
    /\ Rejected(tasks[i])
    /\ tasks'[i].pc # "search"

\* C18: a search whose request was rejected empties the search rows of its
\* collection; in search mode nothing is displayed afterwards.
C18_FailedSearchStep ==
    \A i \in TaskIds :
        IsSearchFailed(i) =>
            LET c == tasks[i].c
            IN /\ searchRows'[c] = <<>>
               /\ _isSearchActive(c)' => displayed(c)' = <<>>

C18_FailedSearchClearsRows == [][C18_FailedSearchStep]_vars

\* The rows of "a" were displayed, then the search for the current term "ab",
\* which has matches, was rejected: nothing is displayed.
C18_Witness ==
    \E c \in Coll :
        LET log == searchLog[c]
        IN /\ Len(log) = 2
           /\ log[1].term = TermA /\ log[1].st = "ok" /\ log[1].done = 1
           /\ log[1].rows # <<>>
           /\ log[2].term = TermAB /\ log[2].st = "err" /\ log[2].done = 2
           /\ Trim(searchTerm[c]) = TermAB
           /\ SearchRecords(c, TermAB) # <<>>
           /\ displayed(c) = <<>>

\* A step of the search activity of c: a keystroke, a debounce timer firing,
\* or a search response resuming its handler.
IsSearchActivity(c) ==
    \/ IsKeystroke(c)
    \/ IsTimerFired(c)
    \/ \E i \in TaskIds :
           /\ tasks[i].kind # "none" /\ tasks[i].pc = "search" /\ tasks[i].c = c
           /\ tasks'[i].pc # "search"

\* C19: a keystroke, a debounce firing and the arrival of a search response,
\* fulfilled or rejected, leave paginated rows, offset, hasMore and
\* TotalCount as they were; the keystroke that clears the term displays the
\* paginated rows accumulated before.
C19_SearchStep ==
    \A c \in Coll :
        /\ IsSearchActivity(c) => UNCHANGED <<paginated, offset, hasMore, totalCount>>
        /\ (IsKeystroke(c) /\ Trim(searchTerm'[c]) = <<>>) => displayed(c)' = paginated[c]

C19_SearchLeavesPagination == [][C19_SearchStep]_vars

\* Two pages were accumulated, a search was typed, answered and cleared: the
\* two pages are displayed again.
C19_Witness ==
    \E c \in Coll :
        /\ NothingInFlight
        /\ used.more[c] = 1
        /\ used.keys = 2
        /\ Len(searchLog[c]) = 1 /\ searchLog[c][1].done = 1
        /\ searchTerm[c] = <<>>
        /\ Len(server[c]) > PAGE_SIZE
        /\ displayed(c) = _addRecordUrls(server[c])
        /\ totalCount[c] = Len(server[c])

\* C20: the teardown cancels the pending debounce timers of both
\* collections; once torn down no timer is armed, none fires and no search
\* request is sent by a timer.
C20_NoTimerAfterTeardown ==
    connected = "disconnected" => debounceTimer = [c \in Coll |-> <<>>]

C20_TeardownStep ==
    /\ (connected = "connected" /\ connected' = "disconnected") =>
           /\ debounceTimer' = [c \in Coll |-> <<>>]
           /\ UNCHANGED <<tasks, searchLog>>
    /\ connected = "disconnected" =>
           \A c \in Coll : ~IsTimerFired(c) /\ Len(searchLog'[c]) = Len(searchLog[c])

C20_TeardownCancelsTimers == []C20_NoTimerAfterTeardown /\ [][C20_TeardownStep]_vars

\* Both search boxes had a term with its timer pending when the component
\* was removed: neither search was ever sent.
C20_Witness ==
    /\ connected = "disconnected"
    /\ \A c \in Coll : _isSearchActive(c) /\ searchLog[c] = <<>>
    /\ Idle

\* ------------------------------------------------------------------ sorting
Reverse(s) == [k \in 1..Len(s) |-> s[Len(s) + 1 - k]]

\* The two rows have equal sort keys: neither sorts before the other.
Tie(x, y, fieldName) ==
    ~Before(x, y, fieldName, "asc") /\ ~Before(y, x, fieldName, "asc")

PositionIn(rows, r) == CHOOSE k \in 1..Len(rows) : rows[k].Id = r.Id

\* Rows with equal keys are in sorted in the order they have in data.
Stable(data, sorted, fieldName) ==
    \A i, j \in 1..Len(sorted) :
        i < j /\ Tie(sorted[i], sorted[j], fieldName)
            => PositionIn(data, sorted[i]) < PositionIn(data, sorted[j])

Ordered(sorted, fieldName, sortDirection) ==
    \A i, j \in 1..Len(sorted) :
        i < j => ~Before(sorted[j], sorted[i], fieldName, sortDirection)

NoTies(data, fieldName) ==
    \A i, j \in 1..Len(data) : i # j => ~Tie(data[i], data[j], fieldName)

OpportunityFields == {"Name", "Amount"}

C22_SortReturnsOrderedPermutation ==
    [][used.sort' # used.sort =>
          /\ used.threw' = used.threw
          /\ IsPermutation(paginated["opportunity"], paginated'["opportunity"])
          /\ \E f \in OpportunityFields : \E d \in SortDirections :
                 Ordered(paginated'["opportunity"], f, d)]_vars

\* C23: a sort replaces the active array of the sorted collection (the search
\* rows while a search is active, the paginated rows otherwise) by a
\* permutation of itself and leaves the inactive array, the other collection,
\* offset, hasMore, TotalCount and the search term unchanged; it issues no
\* gateway request.
C23_SortFrame ==
    [][used.sort' # used.sort =>
          /\ \A c \in UserColl :
                IF _isSearchActive(c)
                THEN /\ IsPermutation(searchRows[c], searchRows'[c])
                     /\ paginated'[c] = paginated[c]
                ELSE /\ IsPermutation(paginated[c], paginated'[c])
                     /\ searchRows'[c] = searchRows[c]
          /\ \A c \in Coll \ UserColl :
                paginated'[c] = paginated[c] /\ searchRows'[c] = searchRows[c]
          /\ UNCHANGED <<offset, hasMore, totalCount, searchTerm, tasks, server>>]_vars

\* A sort has reordered the rows found by a search; the paginated rows are
\* still in the order the server gave them.
C23_Witness ==
    /\ used.sort = 1
    /\ _isSearchActive("contact")
    /\ Len(searchRows["contact"]) = 2
    /\ searchRows["contact"] # _addRecordUrls(SearchRecords("contact", searchTerm["contact"]))
    /\ IsPermutation(searchRows["contact"],
                     _addRecordUrls(SearchRecords("contact", searchTerm["contact"])))
    /\ Len(paginated["contact"]) = 2
    /\ paginated["contact"] = _addRecordUrls(FetchPage("contact", PAGE_SIZE, 0))

\* C24: a refresh whose reload failed is reported by the "Refresh Failed" error
\* notification; "Refreshed" is emitted only for a reload that succeeded.
C24_FailedRefreshReported ==
    [][\A i \in TaskIds :
          IsRefreshDone(i) =>
              toasts' = Append(toasts, IF Rejected(tasks[i]) THEN "Refresh Failed"
                                       ELSE "Refreshed")]_vars

\* The state the component keeps for collection c.
Own(c) ==
    <<paginated[c], searchRows[c], searchTerm[c], offset[c], hasMore[c], totalCount[c],
      debounceTimer[c]>>

\* A step of the initial load or of a refresh.
IsLoadOrRefresh ==
    \/ connected' # connected
    \/ used.refresh' # used.refresh
    \/ \E i \in TaskIds : IsLoadDone(i)

\* The collection the handler in slot i works on, for a slot the step changes.
CollOf(i) == IF tasks[i].kind = "none" THEN tasks'[i].c ELSE tasks[i].c

\* C25: apart from the initial load and refresh, a step changes the paginated
\* rows, search rows, search term, offset, hasMore, TotalCount and debounce
\* timer of one collection at most: of the collection its handler (a search,
\* load-more, sort, save or delete) works on, never of the other one.
C25_CollectionsIndependent ==
    [][~IsLoadOrRefresh =>
          /\ \E c \in Coll : \A o \in Coll \ {c} : Own(o)' = Own(o)
          /\ \A i \in TaskIds :
                tasks'[i] # tasks[i] => \A o \in Coll \ {CollOf(i)} : Own(o)' = Own(o)
          /\ \A c \in Coll :
                searchTerm'[c] # searchTerm[c] => \A o \in Coll \ {c} : Own(o)' = Own(o)]_vars

\* An opportunity was deleted and reloaded while a contact search is
\* displayed and the contacts are as they were loaded.
C25_Witness ==
    /\ Idle
    /\ used.del = 1 /\ used.keys = 1
    /\ Len(server["opportunity"]) = MaxRows - 1
    /\ totalCount["opportunity"] = MaxRows - 1
    /\ _isSearchActive("contact")
    /\ searchRows["contact"] # <<>>
    /\ Len(paginated["contact"]) = PAGE_SIZE
    /\ totalCount["contact"] = MaxRows

\* C26: against a static server list and with no sort applied, under every
\* interleaving of initial load, refresh, load-more and reload completions the
\* paginated rows hold no identifier twice and are the server rows at
\* positions [0, offset), without a gap.
C26_PaginatedIsServerPrefix ==
    used.del = 0 /\ used.save = 0 /\ used.sort = 0 =>
        \A c \in Coll :
            /\ paginated[c] = _addRecordUrls(Prefix(server[c], offset[c]))
            /\ \A j, k \in 1..Len(paginated[c]) :
                   j # k => paginated[c][j].Id # paginated[c][k].Id

\* C27: a search that fails after the term has changed (a stale failure)
\* leaves the search rows as they are; the rows applied for the current term
\* stay displayed.
C27_StaleFailureKeepsRows ==
    [][\A i \in TaskIds :
          IsSearchFailed(i) /\ tasks[i].term # Trim(searchTerm[tasks[i].c]) =>
              /\ searchRows'[tasks[i].c] = searchRows[tasks[i].c]
              /\ displayed(tasks[i].c)' = displayed(tasks[i].c)]_vars

\* C28: while the search term of a collection is empty no debounce timer is
\* pending for it, and no search request is issued for it, also right after a
\* refresh has cleared the terms.
C28_NoTimerWhileEmpty ==
    \A c \in Coll : Trim(searchTerm[c]) = <<>> => debounceTimer[c] = <<>>

C28_NoSearchWhileEmptyStep ==
    \A c \in Coll :
        Len(searchLog'[c]) > Len(searchLog[c]) => Trim(searchTerm[c]) # <<>>

C28_NoSearchForEmptyTerm == []C28_NoTimerWhileEmpty /\ [][C28_NoSearchWhileEmptyStep]_vars

SaveErrorTitles == {"Error Updating Contacts", "Error Updating Opportunities"}

\* C29: a save produces the save-error notification only if the gateway
\* rejected at least one of its row updates; a rejected cache notification,
\* search re-run or reload after successful updates does not produce it.
C29_SaveErrorOnlyOnRejectedUpdate ==
    [][\A i \in TaskIds :
          /\ IsSave(i)
          /\ tasks'[i] # tasks[i]
          /\ Len(toasts') = Len(toasts) + 1
          /\ toasts'[Len(toasts')] \in SaveErrorTitles
          => /\ tasks[i].pc = "update"
             /\ \E k \in 1..Len(tasks[i].reqs) :
                    tasks[i].reqs[k].op = "update" /\ tasks[i].reqs[k].st = "err"]_vars

ErrorTitles == SaveErrorTitles \cup {"Error Deleting Record"}

\* Every load, save and delete so far completed without a gateway failure.
NoGatewayFailure ==
    /\ used.fail = 0
    /\ \A k \in 1..Len(toasts) : toasts[k] \notin ErrorTitles
    /\ \A c \in Coll : ~error[c]

\* C30: when no gateway request is in flight and every save and delete has
\* completed without a gateway failure, TotalCount of each collection is the
\* number of rows the server holds for it, also after two overlapping
\* mutations whose reload responses arrive in either order.
C30_CountMatchesServer ==
    connected = "connected" /\ Idle /\ NoGatewayFailure =>
        \A c \in Coll : totalCount[c] = Len(server[c])

====
